---- MODULE Spec2Model ----
(***************************************************************************)
(* The resource pool of sricc/node-pool (index.js, the Pool constructor    *)
(* and the instance object it builds), as a state machine.                 *)
(*                                                                         *)
(* The pool runs on one JavaScript thread: every method runs to completion *)
(* and the only suspension points are the factory's create and destroy     *)
(* calls and the idle timer.  An action is one synchronous run: a caller's *)
(* acquire / release / drain, the completion of one factory call, one      *)
(* firing of the idle timer, or one step of the clock.  The factory is     *)
(* taken to answer every call, at any later point and in any order; it     *)
(* answers create with a resource it has not produced before.              *)
(***************************************************************************)
EXTENDS Integers, Sequences, FiniteSets, TLC

\* ------------------------------------------------------------------ bounds
MaxMin     == 2   \* options.min is drawn from 0..MaxMin
MaxMax     == 2   \* options.max is drawn from 0..MaxMax (0: not set)
MaxAcquire == 3   \* acquire calls issued by callers
MaxCallbacks == 6 \* acquire calls issued by callers in the deep scenarios
MaxDrain   == 1   \* drain calls issued by callers
IdleTimeout == 1  \* options.idleTimeout, in clock steps

Callbacks == 1..MaxCallbacks
Conns     == 1..(MaxCallbacks + MaxMin)
Foreign   == 0    \* a resource that no create call of this pool produced

VARIABLES
  options,             \* which of options.create / options.destroy the caller gave
  min, max,            \* _min, _max (0 stands for null)
  status,              \* what the construction callback got: "error" (a PoolError,
                       \* no pool), "ready" (the pool), "init" (not invoked yet)
  initPending,         \* warm-up tasks that have not called back
  initThrown,          \* warm-up create calls that were answered with an error
  available,           \* _available: sequence of clients [id, connection, timeLeft]
  active,              \* _active: sequence of connections
  waiting,             \* _waiting: sequence of acquire continuations
  draining,            \* _draining
  removingIdle,        \* _removingIdle
  idleIntHandle,       \* _idleIntHandle: "null", or the timer it names: "pending" / "fired"
  orphanTimers,        \* pending idle timers that _idleIntHandle no longer names
  clientId,            \* _clientId
  nextConn,            \* the resource the factory's next answer to create carries
  creating,            \* continuations whose create call is not yet answered
  destroying,          \* destroy calls not yet answered
  destroyCalls,        \* per resource, the number of destroy calls made on it
  cb,                  \* per acquire continuation: what became of it
  nDrain,              \* drain calls made
  nDrained,            \* drain completion callbacks invoked
  lastOp               \* what the last step was

poolVars == <<available, active, waiting, draining, removingIdle, idleIntHandle,
              orphanTimers, clientId, nextConn, creating, destroying, destroyCalls,
              cb, nDrained>>
vars == <<options, min, max, status, initPending, initThrown, available, active, waiting, draining,
          removingIdle, idleIntHandle, orphanTimers, clientId, nextConn, creating,
          destroying, destroyCalls, cb, nDrain, nDrained, lastOp>>

\* The instance's mutable fields (and the factory calls in flight) as one record,
\* so that a method that calls another is the composition of two functions.
Pool ==
  [available |-> available, active |-> active, waiting |-> waiting,
   draining |-> draining, removingIdle |-> removingIdle,
   idleIntHandle |-> idleIntHandle, orphanTimers |-> orphanTimers,
   clientId |-> clientId, nextConn |-> nextConn, creating |-> creating,
   destroying |-> destroying, destroyCalls |-> destroyCalls, cb |-> cb,
   nDrained |-> nDrained]

Set(p) ==
  /\ available' = p.available
  /\ active' = p.active
  /\ waiting' = p.waiting
  /\ draining' = p.draining
  /\ removingIdle' = p.removingIdle
  /\ idleIntHandle' = p.idleIntHandle
  /\ orphanTimers' = p.orphanTimers
  /\ clientId' = p.clientId
  /\ nextConn' = p.nextConn
  /\ creating' = p.creating
  /\ destroying' = p.destroying
  /\ destroyCalls' = p.destroyCalls
  /\ cb' = p.cb
  /\ nDrained' = p.nDrained

\* ------------------------------------------------------------- JS arrays
\* Array.prototype.indexOf: the first position of x (1-based), 0 for JS's -1.
IndexOf(s, x) ==
  IF \E i \in 1..Len(s) : s[i] = x
  THEN CHOOSE i \in 1..Len(s) : s[i] = x /\ \A j \in 1..(i-1) : s[j] # x
  ELSE 0

RemoveAt(s, i) == [j \in 1..(Len(s)-1) |-> IF j < i THEN s[j] ELSE s[j+1]]

\* s.splice(s.indexOf(x), 1): a start of -1 counts from the end, so when x is
\* not in s the LAST element is removed (nothing when s is empty).
SpliceIndexOf(s, i) ==
  IF Len(s) = 0 THEN s
  ELSE IF i = 0 THEN RemoveAt(s, Len(s))
  ELSE RemoveAt(s, i)

\* the position in _available of the client object with this id
ClientIndex(s, id) ==
  IF \E i \in 1..Len(s) : s[i].id = id
  THEN CHOOSE i \in 1..Len(s) : s[i].id = id /\ \A j \in 1..(i-1) : s[j].id # id
  ELSE 0

\* ------------------------------------------------------------- counters
totalCount(p)     == Len(p.available) + Len(p.active)
availableCount(p) == Len(p.available)
activeCount(p)    == Len(p.active)
waitingCount(p)   == Len(p.waiting)

\* ---------------------------------------------------------- idle reaper
\* _startRemoveIdleInterval, up to the setTimeout call
StartRemoveIdleInterval(p) ==
  IF p.removingIdle \/ Len(p.available) < 1 THEN p
  ELSE [p EXCEPT !.removingIdle = TRUE,
                 !.idleIntHandle = "pending",
                 !.orphanTimers = IF p.idleIntHandle = "pending" THEN @ + 1 ELSE @]

StopRemoveIdleInterval(p) ==
  IF ~p.removingIdle THEN p
  ELSE [p EXCEPT !.removingIdle = FALSE, !.idleIntHandle = "null"]

CheckTimeout_Late(p, client) ==
  (client.timeLeft < 0) /\ (Len(p.available) > min)

\* _checkTimeout: true when the client's timeout has passed and _available
\* (as it is when the check runs) holds more than _min clients
CheckTimeout(p, client) ==
  (client.timeLeft < 1) /\ (Len(p.available) > min)

\* a call of the factory's destroy, not yet answered
CallDestroy(p, kind, grp, client, conn) ==
  [p EXCEPT !.destroying = @ \cup {[kind |-> kind, grp |-> grp, client |-> client, conn |-> conn]},
            !.destroyCalls[conn] = @ + 1]

\* _removeFromPool, up to the destroy call
RemoveFromPool(p, kind, grp, client) ==
  CallDestroy(p, kind, grp, client.id, client.connection)

\* ------------------------------------------------------------- bookkeeping
AddToActive(p, connection) == [p EXCEPT !.active = Append(@, connection)]

AddToPool(p, connection) ==
  StartRemoveIdleInterval(
    [p EXCEPT !.available = Append(@, [id |-> p.clientId, connection |-> connection,
                                       timeLeft |-> IdleTimeout]),
              !.clientId = @ + 1])

AddToWaiting(p, c) ==
  [p EXCEPT !.waiting = Append(@, c), !.cb[c] = [st |-> "waiting", waited |-> TRUE]]

RemoveFromActive(p, connection) ==
  [p EXCEPT !.active = SpliceIndexOf(@, IndexOf(@, connection))]

\* _dispense: the resource becomes active and the continuation gets (null, resource)
Dispense(p, connection, c) ==
  [AddToActive(p, connection) EXCEPT !.cb[c].st = "ok"]

\* _createClient, up to the create call
CreateClient(p, c) ==
  [p EXCEPT !.creating = @ \cup {c}, !.cb[c].st = "creating"]

\* ---------------------------------------------------------------- acquire
\* acquire(callback).  On a timed-out head the code calls _removeFromPool and then
\* evaluates `self.acquire(isInternal, callback)`: isInternal is declared nowhere,
\* so the call throws a ReferenceError before acquire is re-entered and the
\* continuation is dropped ("thrown").
AcquireOn_NoMax(p, c) ==
  IF p.draining THEN [p EXCEPT !.cb[c].st = "err"]
  ELSE IF Len(p.available) > 0 THEN
    LET client == Head(p.available)
        q == [p EXCEPT !.available = Tail(@)]
    IN IF CheckTimeout(q, client)
       THEN [RemoveFromPool(q, "evict", 0, client) EXCEPT !.cb[c].st = "thrown"]
       ELSE Dispense(q, client.connection, c)
  ELSE CreateClient(p, c)

AcquireOn_NoDrainCheck(p, c) ==
  IF Len(p.available) > 0 THEN
    LET client == Head(p.available)
        q == [p EXCEPT !.available = Tail(@)]
    IN IF CheckTimeout(q, client)
       THEN [RemoveFromPool(q, "evict", 0, client) EXCEPT !.cb[c].st = "thrown"]
       ELSE Dispense(q, client.connection, c)
  ELSE IF max # 0 /\ totalCount(p) >= max THEN AddToWaiting(p, c)
  ELSE CreateClient(p, c)

AcquireOn_Lifo(p, c) ==
  IF p.draining THEN [p EXCEPT !.cb[c].st = "err"]
  ELSE IF Len(p.available) > 0 THEN
    LET client == p.available[Len(p.available)]
        q == [p EXCEPT !.available = SubSeq(@, 1, Len(@) - 1)]
    IN IF CheckTimeout(q, client)
       THEN [RemoveFromPool(q, "evict", 0, client) EXCEPT !.cb[c].st = "thrown"]
       ELSE Dispense(q, client.connection, c)
  ELSE IF max # 0 /\ totalCount(p) >= max THEN AddToWaiting(p, c)
  ELSE CreateClient(p, c)

AcquireOn(p, c) ==
  IF p.draining THEN [p EXCEPT !.cb[c].st = "err"]
  ELSE IF Len(p.available) > 0 THEN
    LET client == Head(p.available)
        q == [p EXCEPT !.available = Tail(@)]
    IN IF CheckTimeout(q, client)
       THEN [RemoveFromPool(q, "evict", 0, client) EXCEPT !.cb[c].st = "thrown"]
       ELSE Dispense(q, client.connection, c)
  ELSE IF max # 0 /\ totalCount(p) >= max THEN AddToWaiting(p, c)
  ELSE CreateClient(p, c)

\* ---------------------------------------------------------------- release
ReleaseOn_NoCheck(p, connection) ==
  LET q == AddToPool(RemoveFromActive(p, connection), connection)
  IN IF Len(q.waiting) > 0
     THEN AcquireOn([q EXCEPT !.waiting = Tail(@)], Head(q.waiting))
     ELSE q

\* release(connection, callback)
ReleaseOn(p, connection) ==
  IF IndexOf(p.active, connection) = 0 THEN p
  ELSE LET q == AddToPool(RemoveFromActive(p, connection), connection)
       IN IF Len(q.waiting) > 0
          THEN AcquireOn([q EXCEPT !.waiting = Tail(@)], Head(q.waiting))
          ELSE q

\* ------------------------------------------------------------------ drain
\* a group number no pending destroy call carries
NewGrp(p) ==
  CHOOSE g \in 1..(Cardinality(p.destroying) + 1) :
    /\ \A r \in p.destroying : r.grp # g
    /\ \A h \in 1..(g-1) : \E r \in p.destroying : r.grp = h

RECURSIVE DestroyClients(_, _, _, _)
DestroyClients(p, kind, grp, clients) ==
  IF Len(clients) = 0 THEN p
  ELSE DestroyClients(RemoveFromPool(p, kind, grp, Head(clients)), kind, grp, Tail(clients))

RECURSIVE DestroyConns(_, _, _, _)
DestroyConns(p, kind, grp, conns) ==
  IF Len(conns) = 0 THEN p
  ELSE DestroyConns(CallDestroy(p, kind, grp, 0, Head(conns)), kind, grp, Tail(conns))

\* the final callback of drain's second async.each
DrainFinish(p) ==
  [p EXCEPT !.active = <<>>, !.draining = FALSE, !.nDrained = @ + 1]

\* the final callback of drain's first async.each
DrainActive(p, grp) ==
  LET q == [p EXCEPT !.available = <<>>]
  IN IF Len(q.active) = 0 THEN DrainFinish(q)
     ELSE DestroyConns(q, "drain2", grp, q.active)

DrainOn_RejectsWaiters(p) ==
  LET q == StopRemoveIdleInterval(
             [p EXCEPT !.draining = TRUE, !.waiting = <<>>,
                       !.cb = [c \in Callbacks |->
                                 IF IndexOf(p.waiting, c) # 0
                                 THEN [p.cb[c] EXCEPT !.st = "err"] ELSE p.cb[c]]])
  IN IF Len(q.available) = 0 THEN DrainActive(q, NewGrp(q))
     ELSE DestroyClients(q, "drain1", NewGrp(q), q.available)

DrainOn(p) ==
  LET q == StopRemoveIdleInterval([p EXCEPT !.draining = TRUE])
  IN IF Len(q.available) = 0 THEN DrainActive(q, NewGrp(q))
     ELSE DestroyClients(q, "drain1", NewGrp(q), q.available)

\* ------------------------------------------------------- the timer's body
TimedOutClients_AboveMin(p) ==
  SelectSeq(SubSeq(p.available, 1, Len(p.available) - min),
            LAMBDA client : CheckTimeout(p, client))

TimedOutClients(p) == SelectSeq(p.available, LAMBDA client : CheckTimeout(p, client))

\* the final callback of the timer's second async.each
ReapFinish(p) == StartRemoveIdleInterval([p EXCEPT !.removingIdle = FALSE])

RemoveIdle(p) ==
  IF Len(p.available) <= min THEN StartRemoveIdleInterval(p)
  ELSE IF Len(TimedOutClients(p)) = 0 THEN ReapFinish(p)
  ELSE DestroyClients(p, "reap", NewGrp(p), TimedOutClients(p))

\* --------------------------------------------- the answer to a destroy call
LastOfGroup(p, r) == \A s \in p.destroying : s = r \/ s.grp # r.grp \/ s.kind # r.kind

DestroyAnswered(p, r) ==
  LET q == [p EXCEPT !.destroying = @ \ {r}]
      spliced == [q EXCEPT !.available = SpliceIndexOf(@, ClientIndex(@, r.client))]
  IN CASE r.kind = "evict"  -> spliced
       [] r.kind = "reap"   -> IF LastOfGroup(p, r) THEN ReapFinish(spliced) ELSE spliced
       [] r.kind = "drain1" -> IF LastOfGroup(p, r) THEN DrainActive(q, r.grp) ELSE q
       [] r.kind = "drain2" -> IF LastOfGroup(p, r) THEN DrainFinish(q) ELSE q

\* ------------------------------------------------------------------- Init
NewCb == [st |-> "new", waited |-> FALSE]

\* the constructor's two checks, before the instance is built
ConfigError_CreateOnly(o) == ~o.create

ConfigError(o) == ~o.create \/ ~o.destroy

Init ==
  /\ options \in [create : BOOLEAN, destroy : BOOLEAN]
  /\ min \in 0..MaxMin
  /\ max \in 0..MaxMax
  /\ status = IF ConfigError(options) THEN "error"
              ELSE IF min = 0 THEN "ready" ELSE "init"
  /\ initPending = IF ConfigError(options) THEN 0 ELSE min
  /\ initThrown = 0
  /\ available = <<>>
  /\ active = <<>>
  /\ waiting = <<>>
  /\ draining = FALSE
  /\ removingIdle = FALSE
  /\ idleIntHandle = "null"
  /\ orphanTimers = 0
  /\ clientId = 1
  /\ nextConn = 1
  /\ creating = {}
  /\ destroying = {}
  /\ destroyCalls = [c \in Conns |-> 0]
  /\ cb = [c \in Callbacks |-> NewCb]
  /\ nDrain = 0
  /\ nDrained = 0
  /\ lastOp = IF ~ConfigError(options) /\ min = 0 THEN "ready" ELSE "other"

\* ---------------------------------------------------------------- actions
\* async.parallel calls init's final callback, which hands the pool to the
\* caller, once every task has called back
WarmUpDone_First(pending) == pending >= 0

WarmUpDone(pending) == pending = 0

\* init: one warm-up create call is answered
InitCreated ==
  /\ status = "init"
  /\ initPending - initThrown > 0
  /\ Set([AddToPool(Pool, nextConn) EXCEPT !.nextConn = @ + 1])
  /\ initPending' = initPending - 1
  /\ status' = IF WarmUpDone(initPending - 1) THEN "ready" ELSE "init"
  /\ lastOp' = IF WarmUpDone(initPending - 1) THEN "ready" ELSE "other"
  /\ UNCHANGED <<options, initThrown, min, max, nDrain>>

\* init: one warm-up create call is answered with an error.  The function given
\* to _create throws it (`if (error) throw error`), so this task never calls
\* back and async.parallel goes on counting it as not finished.
WarmUpFailed_CallsBack(pending) == pending - 1

WarmUpFailed(pending) == pending

InitFailed ==
  /\ status = "init"
  /\ initPending - initThrown > 0
  /\ initThrown' = initThrown + 1
  /\ initPending' = WarmUpFailed(initPending)
  /\ status' = IF WarmUpDone(WarmUpFailed(initPending)) THEN "ready" ELSE "init"
  /\ lastOp' = IF WarmUpDone(WarmUpFailed(initPending)) THEN "ready" ELSE "other"
  /\ UNCHANGED <<options, min, max, nDrain>>
  /\ UNCHANGED poolVars

\* a caller's acquire(callback); c is the next continuation not yet used
AcquireCb(c) ==
  /\ status = "ready"
  /\ cb[c].st = "new"
  /\ \A d \in 1..(c-1) : cb[d].st # "new"
  /\ Set(AcquireOn(Pool, c))
  /\ lastOp' = "other"
  /\ UNCHANGED <<options, initThrown, min, max, status, initPending, nDrain>>

Acquire == \E c \in 1..MaxAcquire : AcquireCb(c)

\* the factory answers acquire's create call: _createClient's callback, _dispense
CreatedOn(p, c) ==
  [Dispense([p EXCEPT !.creating = @ \ {c}], p.nextConn, c) EXCEPT !.nextConn = @ + 1]

Created ==
  /\ \E c \in creating : Set(CreatedOn(Pool, c))
  /\ lastOp' = "other"
  /\ UNCHANGED <<options, initThrown, min, max, status, initPending, nDrain>>

\* the factory answers acquire's create call with an error.  _createClient's
\* callback evaluates client.hasOwnProperty('id') first: when the factory gave
\* no second argument this throws a TypeError inside the factory's callback and
\* the continuation is dropped; when it gave one, acquire's callback ignores the
\* error and dispenses that object.
CreateFailedOn(p, c, withClient) ==
  IF withClient THEN CreatedOn(p, c)
  ELSE [p EXCEPT !.creating = @ \ {c}, !.cb[c].st = "thrown"]

CreateFailedCb(c, withClient) ==
  /\ c \in creating
  /\ Set(CreateFailedOn(Pool, c, withClient))
  /\ lastOp' = "other"
  /\ UNCHANGED <<options, initThrown, min, max, status, initPending, nDrain>>

CreateFailed == \E c \in creating, withClient \in BOOLEAN : CreateFailedCb(c, withClient)

\* a caller's release(connection), of any resource the factory has produced
\* so far or of one that is not this pool's
ReleaseConn(connection) ==
  /\ status = "ready"
  /\ Set(ReleaseOn(Pool, connection))
  /\ lastOp' = IF IndexOf(active, connection) = 0 THEN "releaseNoop"
                ELSE IF Len(waiting) > 0 THEN "releaseResume"
                ELSE "release"
  /\ UNCHANGED <<options, initThrown, min, max, status, initPending, nDrain>>

Release == \E connection \in {Foreign} \cup 1..(nextConn - 1) : ReleaseConn(connection)

Drain ==
  /\ status = "ready"
  /\ nDrain < MaxDrain
  /\ Set(DrainOn(Pool))
  /\ nDrain' = nDrain + 1
  /\ lastOp' = IF DrainOn(Pool).nDrained # nDrained THEN "drained" ELSE "other"
  /\ UNCHANGED <<options, initThrown, min, max, status, initPending>>

Destroyed ==
  /\ \E r \in destroying :
       /\ Set(DestroyAnswered(Pool, r))
       /\ lastOp' = IF DestroyAnswered(Pool, r).nDrained # nDrained THEN "drained"
                    ELSE "other"
  /\ UNCHANGED <<options, initThrown, min, max, status, initPending, nDrain>>

\* the idle timer named by _idleIntHandle fires
TimerFires ==
  /\ idleIntHandle = "pending"
  /\ Set(RemoveIdle([Pool EXCEPT !.idleIntHandle = "fired"]))
  /\ lastOp' = "other"
  /\ UNCHANGED <<options, initThrown, min, max, status, initPending, nDrain>>

\* an idle timer that _idleIntHandle no longer names fires
OrphanTimerFires ==
  /\ orphanTimers > 0
  /\ Set(RemoveIdle([Pool EXCEPT !.orphanTimers = @ - 1]))
  /\ lastOp' = "other"
  /\ UNCHANGED <<options, initThrown, min, max, status, initPending, nDrain>>

\* one unit of time passes: every idle client has one unit less left
ClockTick ==
  /\ available' = [i \in 1..Len(available) |->
                     [available[i] EXCEPT !.timeLeft = IF @ > 0 THEN @ - 1 ELSE 0]]
  /\ lastOp' = "other"
  /\ UNCHANGED <<options, initThrown, min, max, status, initPending, nDrain, active, waiting, draining,
                 removingIdle, idleIntHandle, orphanTimers, clientId, nextConn,
                 creating, destroying, destroyCalls, cb, nDrained>>

Next ==
  \/ InitCreated
  \/ Acquire
  \/ Created
  \/ Release
  \/ Drain
  \/ Destroyed
  \/ TimerFires
  \/ OrphanTimerFires
  \/ ClockTick

Spec == Init /\ [][Next]_vars

\* The pool with a factory whose create may fail, for callers that do not drain
FailNext ==
  \/ InitCreated
  \/ InitFailed
  \/ Acquire
  \/ Created
  \/ CreateFailed
  \/ Release
  \/ Destroyed
  \/ TimerFires
  \/ ClockTick

SpecFail == Init /\ [][FailNext]_vars

\* ------------------------------------------------------------------ types
TypeOK ==
  /\ min \in 0..MaxMin /\ max \in 0..MaxMax
  /\ options \in [create : BOOLEAN, destroy : BOOLEAN]
  /\ status \in {"error", "init", "ready"}
  /\ initPending \in 0..MaxMin /\ initThrown \in 0..MaxMin
  /\ draining \in BOOLEAN /\ removingIdle \in BOOLEAN
  /\ idleIntHandle \in {"null", "pending", "fired"}
  /\ \A i \in 1..Len(active) : active[i] \in Conns
  /\ \A i \in 1..Len(waiting) : waiting[i] \in Callbacks
  /\ creating \subseteq Callbacks
\* ================================================================ claims
factoryCalls == <<nextConn, creating, destroying, destroyCalls, initPending>>

\* ---------------------------------------------------------------------- C1
\* C1: with max = N set and min <= N, totalCount = |available| + |active| is at
\* most N in every reachable state, also when several acquire calls are issued
\* while earlier create calls are still unanswered.
C1_TotalAtMostMax ==
  (max # 0 /\ min <= max) => totalCount(Pool) <= max

\* ---------------------------------------------------------------------- C2
AtMaxAnyDrain == max # 0 /\ activeCount(Pool) = max /\ availableCount(Pool) = 0
AtMax == AtMaxAnyDrain /\ ~draining

\* In a state satisfying pre: an acquire is appended to the waiting queue (its
\* continuation is not invoked, nothing is created, the counts stay); a release
\* of an active resource with a waiter queued resumes exactly the head waiter
\* with (null, resource), leaving activeCount = max, availableCount = 0 and one
\* waiter fewer.
C2_Step(pre) ==
  /\ \A c \in Callbacks :
       (pre /\ AcquireCb(c)) =>
         /\ waiting' = Append(waiting, c)
         /\ cb'[c].st = "waiting"
         /\ \A d \in Callbacks \ {c} : cb'[d] = cb[d]
         /\ UNCHANGED <<available, active>>
         /\ UNCHANGED factoryCalls
  /\ \A r \in Conns :
       (pre /\ Len(waiting) > 0 /\ IndexOf(active, r) # 0 /\ ReleaseConn(r)) =>
         /\ cb'[Head(waiting)].st = "ok"
         /\ \A d \in Callbacks \ {Head(waiting)} : cb'[d] = cb[d]
         /\ waiting' = Tail(waiting)
         /\ active' = Append(RemoveFromActive(Pool, r).active, r)
         /\ activeCount(Pool)' = max
         /\ availableCount(Pool)' = 0
         /\ UNCHANGED factoryCalls

\* C2 as stated: with max = N, N resources active and none available, a further
\* acquire neither errors nor creates nor invokes its continuation but is queued,
\* and a following release of an active resource resumes exactly one waiter
\* with (null, resource), after which activeCount = N, availableCount = 0 and
\* waitingCount is one less.
C2_Original == [][C2_Step(AtMaxAnyDrain)]_vars

\* C2 as amended: the same, in the states where no drain is under way.
C2_BlocksThenResumes == [][C2_Step(AtMax)]_vars

C2_Witness ==
  /\ lastOp = "releaseResume"
  /\ AtMax
  /\ max = 2
  /\ \E c \in Callbacks : cb[c].st = "ok" /\ cb[c].waited

\* ---------------------------------------------------------------------- C3
Invoked(c) == cb[c].st \in {"ok", "err"}

\* C3: of two acquire calls that both became waiters, the one enqueued later
\* never has its continuation invoked before the one enqueued earlier has had
\* its continuation invoked.  (Continuations are numbered in the order of the
\* acquire calls, which is the order of enqueueing.)
C3_WaitersFifo ==
  \A w1, w2 \in Callbacks :
    (w1 < w2 /\ cb[w1].waited /\ cb[w2].waited /\ Invoked(w2)) => Invoked(w1)

\* ---------------------------------------------------------------------- C4
\* C4: no acquire jumps the queue: a continuation that never waited is not
\* dispatched a resource while an acquire issued before it is still in the
\* waiting queue.
C4_NoQueueJump ==
  \A w, c \in Callbacks :
    ~(w < c /\ cb[w].st = "waiting" /\ cb[c].st = "ok" /\ ~cb[c].waited)

\* ---------------------------------------------------------------------- C5
\* C5: when drain's completion callback is invoked, availableCount =
\* activeCount = totalCount = 0.
C5_DrainedEmpty ==
  lastOp = "drained" =>
    availableCount(Pool) = 0 /\ activeCount(Pool) = 0 /\ totalCount(Pool) = 0

\* ---------------------------------------------------------------------- C6
\* C6: an acquire issued while draining is true invokes its continuation with
\* the pool-draining error and leaves available, active, waiting and the
\* factory calls made as they were.
C6_Step ==
  \A c \in Callbacks :
    (draining /\ AcquireCb(c)) =>
      /\ cb'[c] = [st |-> "err", waited |-> FALSE]
      /\ \A d \in Callbacks \ {c} : cb'[d] = cb[d]
      /\ UNCHANGED <<available, active, waiting>>
      /\ UNCHANGED factoryCalls

C6_DrainingAcquireFails == [][C6_Step]_vars

C6_Witness ==
  /\ draining
  /\ \E c \in Callbacks : cb[c].st = "err" /\ ~cb[c].waited
  /\ Len(waiting) > 0 /\ Len(active) > 0

\* ---------------------------------------------------------------------- C7
\* C7: draining is true only between a drain call and that drain's completion;
\* once a drain has completed the flag is false and the pool is reusable: an
\* acquire issued then calls create and, once create has answered, totalCount
\* = 1, activeCount = 1 and availableCount = 0.
C7_ReusableAfterDrain ==
  /\ draining => nDrain > nDrained
  /\ lastOp = "drained" =>
       /\ ~draining
       /\ \A c \in Callbacks :
            (cb[c].st = "new" /\ \A d \in 1..(c-1) : cb[d].st # "new") =>
              /\ c \in AcquireOn(Pool, c).creating
              /\ totalCount(CreatedOn(AcquireOn(Pool, c), c)) = 1
              /\ activeCount(CreatedOn(AcquireOn(Pool, c), c)) = 1
              /\ availableCount(CreatedOn(AcquireOn(Pool, c), c)) = 0

\* ---------------------------------------------------------------------- C8
instanceFields == <<available, active, waiting, draining, removingIdle,
                    idleIntHandle, orphanTimers, clientId, cb, nDrained>>

\* A release of a resource that is not active changes nothing and calls no
\* factory function; a release of an active resource, when again holds, leaves
\* the resource out of the active set, so that releasing it again at once is
\* that no-op.
C8_Step(again) ==
  \A r \in {Foreign} \cup 1..(nextConn - 1) :
    (lastOp' \in {"releaseNoop", "release", "releaseResume"} /\ ReleaseConn(r)) =>
      /\ IndexOf(active, r) = 0 =>
           UNCHANGED instanceFields /\ UNCHANGED factoryCalls
      /\ (IndexOf(active, r) # 0 /\ again) => IndexOf(active', r) = 0

\* C8 as stated: release of a resource not in the active set changes nothing,
\* hence releasing the same resource twice in a row has the same effect as
\* releasing it once.
C8_Original == [][C8_Step(TRUE)]_vars

\* C8 as amended: the second release is the no-op when no waiter was queued at
\* the first release.
C8_ReleaseUnknownNoop == [][C8_Step(Len(waiting) = 0)]_vars

C8_Witness ==
  /\ lastOp = "releaseNoop"
  /\ Len(active) > 0 /\ Len(waiting) > 0 /\ ~draining

\* ---------------------------------------------------------------------- C9
\* a timer is pending, or a sweep is waiting for its destroy calls
ReaperRunning ==
  \/ idleIntHandle = "pending"
  \/ orphanTimers > 0
  \/ \E d \in destroying : d.kind = "reap"

\* C9: release of an active resource while no waiter is queued removes exactly
\* that resource from active and appends it at the back of available:
\* activeCount falls by 1, availableCount rises by 1, totalCount is unchanged,
\* no factory function is called, and the idle reaper is running afterwards.
C9_Step ==
  \A r \in Conns :
    (IndexOf(active, r) # 0 /\ Len(waiting) = 0 /\ ReleaseConn(r)) =>
      /\ active' = RemoveAt(active, IndexOf(active, r))
      /\ Len(available') = Len(available) + 1
      /\ SubSeq(available', 1, Len(available)) = available
      /\ available'[Len(available')].connection = r
      /\ activeCount(Pool)' = activeCount(Pool) - 1
      /\ availableCount(Pool)' = availableCount(Pool) + 1
      /\ totalCount(Pool)' = totalCount(Pool)
      /\ UNCHANGED factoryCalls
      /\ ReaperRunning'

C9_ReleaseToAvailable == [][C9_Step]_vars

\* --------------------------------------------------------------------- C10
\* C10: the construction callback is invoked only after exactly min create
\* calls have been answered and each resource is in available: at readiness
\* availableCount = min, activeCount = 0, waitingCount = 0 (no create call at
\* all when min is not set).
C10_ReadyAfterWarmUp ==
  /\ status = "ready" => initPending = 0
  /\ status = "init" => lastOp # "ready"
  /\ lastOp = "ready" =>
       /\ status = "ready"
       /\ availableCount(Pool) = min
       /\ {available[i].connection : i \in 1..Len(available)} = 1..min
       /\ activeCount(Pool) = 0
       /\ waitingCount(Pool) = 0
       /\ nextConn = min + 1
       /\ creating = {}

C10_Witness == lastOp = "ready" /\ min = 2 /\ availableCount(Pool) = 2

\* --------------------------------------------------------------------- C11
\* C11: constructing a pool without a create function, or without a destroy
\* function, invokes the construction callback with a PoolError and no pool,
\* and initializes nothing: no factory call is made, no reaper timer is started.
C11_ConfigErrorNoInit ==
  (~options.create \/ ~options.destroy) =>
    /\ status = "error"
    /\ nextConn = 1 /\ initPending = 0 /\ creating = {}
    /\ destroying = {} /\ \A c \in Conns : destroyCalls[c] = 0
    /\ idleIntHandle = "null" /\ orphanTimers = 0 /\ ~removingIdle
    /\ available = <<>> /\ active = <<>> /\ waiting = <<>>

C11_Witness == status = "error" /\ options.create /\ ~options.destroy /\ min = 2

\* --------------------------------------------------------------------- C12
\* C12: idle reaping never reduces availableCount below min: a reaper tick that
\* starts with availableCount >= min calls destroy on so few clients that, once
\* every one of these evictions has completed (each takes one client out of
\* available), availableCount is still >= min.
C12_Step ==
  ((TimerFires \/ OrphanTimerFires) /\ availableCount(Pool) >= min) =>
    availableCount(Pool) - Cardinality(destroying' \ destroying) >= min

C12_ReapKeepsMin == [][C12_Step]_vars

\* --------------------------------------------------------------------- C13
\* The scenario of the test 'should destroy any idle clients from pool': a pool
\* with min = 2 and no max, whose callers issue four acquire calls, release
\* what they hold and never call drain.
IdleMin      == 2
IdleAcquires == 4

IdleInit == Init /\ ~ConfigError(options) /\ min = IdleMin /\ max = 0

IdleNext ==
  \/ InitCreated
  \/ \E c \in 1..IdleAcquires : AcquireCb(c)
  \/ Created
  \/ \E connection \in 1..(nextConn - 1) :
       IndexOf(active, connection) # 0 /\ ReleaseConn(connection)
  \/ ClockTick
  \/ TimerFires
  \/ Destroyed

SpecIdle == IdleInit /\ [][IdleNext]_vars

\* all four resources have been acquired and released and have sat idle past
\* idleTimeout
FourIdleExpired ==
  /\ Len(available) = IdleAcquires /\ Len(active) = 0
  /\ \A i \in 1..Len(available) : available[i].timeLeft < 1

\* a reaper tick in that state calls destroy on every one of the four
C13_Step ==
  (FourIdleExpired /\ TimerFires) =>
    /\ {d.conn : d \in destroying' \ destroying} =
         {available[i].connection : i \in 1..Len(available)}
    /\ \A k \in 1..IdleAcquires : destroyCalls'[k] = 1

\* once the reaper's destroy calls on the four have been answered, the pool
\* holds nothing
C13_Done ==
  ((\A k \in 1..IdleAcquires : destroyCalls[k] >= 1) /\ destroying = {}) =>
    totalCount(Pool) = 0 /\ availableCount(Pool) = 0 /\ activeCount(Pool) = 0

\* C13: in a pool with min = 2 and no max, after four resources have been
\* acquired and all four released and have sat idle past idleTimeout across a
\* reaper tick, the reaper has destroyed every idle resource: totalCount =
\* availableCount = activeCount = 0.
C13_IdleAllDestroyed == [][C13_Step]_vars /\ []C13_Done

C13_Witness ==
  /\ min = IdleMin /\ max = 0 /\ nextConn = IdleAcquires + 1
  /\ \A k \in 1..IdleAcquires : destroyCalls[k] = 1
  /\ destroying = {} /\ idleIntHandle = "fired"
  /\ totalCount(Pool) = 0

\* --------------------------------------------------------------------- C14
\* C14: no resource is passed to the factory's destroy function more than
\* once, whatever the interleaving of acquire's stale-head eviction, reaper
\* ticks and drain with the answers to destroy.
\* Checked in the case the claim singles out: while the reaper's destroy call on
\* a resource is unanswered, neither acquire nor drain's pass over the
\* available queue calls destroy on that resource again.
C14_DestroyOnce ==
  \A d, e \in destroying :
    (d.kind = "reap" /\ e.kind \in {"evict", "drain1"} /\ e.conn = d.conn) =>
      destroyCalls[d.conn] <= 1

\* --------------------------------------------------------------------- C15
\* C15 (a consequence of it): a resource on which the reaper or acquire's
\* stale-head eviction has called destroy, the call not yet answered, is not
\* in the active set.
C15_ReapedNotActive ==
  \A d \in destroying :
    d.kind \in {"reap", "evict"} => IndexOf(active, d.conn) = 0

\* --------------------------------------------------------------------- C16
\* C16: when the factory's create call made by acquire fails, the caller's
\* continuation is invoked with that error and no resource, and nothing is
\* added to the active set or the available queue.
C16_Step ==
  \A c \in Callbacks, withClient \in BOOLEAN :
    CreateFailedCb(c, withClient) =>
      /\ cb'[c].st = "err"
      /\ UNCHANGED <<available, active>>

C16_CreateErrorPropagates == [][C16_Step]_vars

\* --------------------------------------------------------------------- C17
\* C17: when max is unset (0) an acquire never waits: the waiting queue is
\* empty in every reachable state, and every acquire outside draining either
\* reuses an available resource (its continuation gets it) or calls create.
C17_Step ==
  \A c \in Callbacks :
    (max = 0 /\ ~draining /\ AcquireCb(c)) =>
      /\ waiting' = <<>>
      /\ \/ cb'[c].st = "ok" /\ Len(available') = Len(available) - 1
         \/ cb'[c].st = "creating" /\ creating' = creating \cup {c}

C17_NoMaxNeverWaits == [](max = 0 => waiting = <<>>) /\ [][C17_Step]_vars

\* --------------------------------------------------------------------- C18
InAvailable(k) == \E i \in 1..Len(available) : available[i].connection = k
InActive(k)    == IndexOf(active, k) # 0

\* C18: every resource the pool has created and has not passed to destroy is in
\* exactly one of the available queue and the active set (never both, never
\* neither).  Checked in the runs in which drain has not been called, where the
\* only removals from available are acquire's and the reaper's.
C18_ExactlyOnePlace ==
  nDrain = 0 =>
    \A k \in 1..(nextConn - 1) :
      destroyCalls[k] = 0 => (InAvailable(k) # InActive(k))

\* --------------------------------------------------------------------- C19
\* C19: acquire never dispatches a resource whose idle expiry has passed while
\* a resource whose expiry has not passed is in the available queue.
C19_Step ==
  \A c \in Callbacks :
    (/\ ~draining /\ Len(available) > 0
     /\ Head(available).timeLeft < 1
     /\ AcquireCb(c)
     /\ cb'[c].st = "ok" /\ active' = Append(active, Head(available).connection)) =>
      ~ \E i \in 1..Len(available) : available[i].timeLeft >= 1

C19_Original == [][C19_Step]_vars

\* C19 as amended: an acquire that pops a head whose idle expiry has passed does
\* not dispatch it when more than min clients remain in the available queue
\* behind it, and dispatches it when min or fewer remain, whether or not one of
\* those has not expired.
C19_AboveMinStep ==
  \A c \in Callbacks :
    (/\ ~draining /\ Len(available) > 0
     /\ Head(available).timeLeft < 1
     /\ AcquireCb(c)) =>
      IF Len(available) - 1 > min
      THEN cb'[c].st # "ok" /\ active' = active
      ELSE cb'[c].st = "ok" /\ active' = Append(active, Head(available).connection)

C19_NoStaleAboveMin == [][C19_AboveMinStep]_vars

\* an expired head has just been popped with more than min clients behind it,
\* and was not dispatched
C19_Witness ==
  /\ \E d \in destroying : d.kind = "evict" /\ ~InActive(d.conn)
  /\ \E c \in Callbacks : cb[c].st = "thrown"
  /\ Len(available) > min

\* --------------------------------------------------------------------- C20
\* C20: when acquire pops a head that is stale (expired, and more than min
\* clients remain available), destroy is called on exactly that resource, the
\* other entries of the available queue stay in place and in order, and
\* acquire retries: within the call the continuation is invoked with a resource
\* or an error, or a create call is made for it, or it is enqueued as a waiter.
C20_Step ==
  \A c \in Callbacks :
    (/\ ~draining /\ Len(available) > 0
     /\ CheckTimeout([Pool EXCEPT !.available = Tail(@)], Head(available))
     /\ AcquireCb(c)) =>
      /\ destroyCalls'[Head(available).connection] =
           destroyCalls[Head(available).connection] + 1
      /\ \E n \in 0..Len(Tail(available)) :
           available' = SubSeq(Tail(available), n + 1, Len(Tail(available)))
      /\ cb'[c].st \in {"ok", "err", "creating", "waiting"}

C20_StaleHeadRetries == [][C20_Step]_vars

\* --------------------------------------------------------------------- C21
\* C21: the idle reaper recurs until drain: after any tick taken before drain
\* has been called, also one that finds availableCount <= min and evicts
\* nothing, the reaper is still running (another tick is scheduled, or the
\* tick's evictions are under way and its last one schedules it).  Checked for
\* the ticks that find a resource in available.
C21_Step ==
  (nDrain = 0 /\ availableCount(Pool) > 0 /\ (TimerFires \/ OrphanTimerFires)) =>
    ReaperRunning'

C21_ReaperRecurs == [][C21_Step]_vars

\* --------------------------------------------------------------------- C22
\* C22: if any create call fails during warm-up, the pool is never deemed
\* ready: the construction callback is never invoked with a pool object,
\* however many of the other warm-up create calls succeeded.
C22_FailedWarmUpNeverReady ==
  initThrown > 0 => (status = "init" /\ lastOp # "ready")

C22_Witness ==
  /\ min = 2 /\ initThrown = 1 /\ initPending = 1
  /\ availableCount(Pool) = 1

\* --------------------------------------------------------------------- C23
\* C23: drain itself never resolves, rejects or removes a waiter: the drain
\* call, and every step other than a release taken while the drain is under
\* way, leaves the waiting queue as it is (same continuations, same order) and
\* invokes none of the queued continuations; so with no release between the
\* drain call and its completion the queue after drain is the queue before it.
C23_Step ==
  ((Drain \/ draining) /\ lastOp' \notin {"release", "releaseResume", "releaseNoop"}) =>
    /\ waiting' = waiting
    /\ \A i \in 1..Len(waiting) : cb'[waiting[i]] = cb[waiting[i]]

C23_DrainLeavesWaiters == [][C23_Step]_vars

\* a drain has completed with two acquires still queued, neither invoked
C23_Witness ==
  /\ lastOp = "drained" /\ Len(waiting) = 2
  /\ \A i \in 1..Len(waiting) : cb[waiting[i]].st = "waiting"
  /\ \A c \in Callbacks : cb[c].st # "err"

\* --------------------------------------------------------------------- C24
\* C24: available resources are reused in FIFO order: when acquire reuses a
\* resource without an eviction, the resource dispatched is the one that has
\* been in the available queue longest, i.e. the one whose client wrapper
\* carries the smallest id (ids are handed out in the order in which resources
\* enter the queue), and the others stay queued in their order.
C24_Step ==
  \A c \in Callbacks :
    (~draining /\ Len(available) > 0 /\ AcquireCb(c) /\ cb'[c].st = "ok") =>
      \E i \in 1..Len(available) :
        /\ \A j \in 1..Len(available) : available[i].id <= available[j].id
        /\ active' = Append(active, available[i].connection)
        /\ available' = RemoveAt(available, i)

C24_ReuseFifo == [][C24_Step]_vars

\* r1 and r2 were created, r2 was released before r1, and the third acquire
\* was dispatched r2
C24_Witness ==
  /\ min = 0 /\ nDrain = 0 /\ nextConn = 3 /\ clientId = 3
  /\ cb[3].st = "ok" /\ active = <<2>>
  /\ Len(available) = 1 /\ available[1].connection = 1 /\ available[1].id = 2
  /\ destroying = {}

\* --------------------------------------------------------------------- C25
\* A pool with max = 1 whose factory answers every call and whose callers
\* release every resource they hold for as long as the pool has it active.
LiveInit == Init /\ ~ConfigError(options) /\ min = 0 /\ max = 1

ReleaseHeld(connection) == InActive(connection) /\ ReleaseConn(connection)

LiveNext ==
  \/ Acquire
  \/ Created
  \/ \E connection \in Conns : ReleaseHeld(connection)
  \/ Drain
  \/ Destroyed

SpecLive ==
  /\ LiveInit /\ [][LiveNext]_vars
  /\ WF_vars(Created) /\ WF_vars(Destroyed)
  /\ \A connection \in Conns : WF_vars(ReleaseHeld(connection))

\* C25: in a pool with max set, if every caller that holds a resource
\* eventually releases it, every acquire that was enqueued as a waiter
\* eventually has its continuation invoked (with a resource or an error), also
\* in the runs in which drain is called while waiters are queued.
C25_WaitersServed ==
  \A c \in Callbacks : (cb[c].st = "waiting") ~> Invoked(c)

\* --------------------------------------------------------------------- C26
\* C26: between pool operations, a non-empty waiting queue implies an empty
\* available queue: no resource sits in available while an acquire is queued.
C26_NoIdleWhileWaiting == Len(waiting) > 0 => Len(available) = 0

\* ----------------------------------------------------- the deep scenarios
\* One configuration (max = 1, no min), callers that issue up to MaxCallbacks
\* acquire calls, release only what is active and call drain only while an
\* acquire is queued, and idle timers that have not fired yet.
DeepInit == Init /\ min = 0 /\ max = 1

DeepNext ==
  \/ \E c \in Callbacks : AcquireCb(c)
  \/ Created
  \/ \E connection \in 1..(nextConn - 1) :
       IndexOf(active, connection) # 0 /\ ReleaseConn(connection)
  \/ (Len(waiting) > 0 /\ Drain)
  \/ Destroyed
  \/ ClockTick

SpecDeep == DeepInit /\ [][DeepNext]_vars
====
